---------------------------- MODULE Spec2Model ----------------------------
(***************************************************************************)
(* A model of yallah.py: the pipeline that resolves, for a portal URL, the *)
(* JavaScript bundle paths of the application the page bootstraps.         *)
(*                                                                         *)
(* Text is a sequence of one-character strings.  A Python value is a       *)
(* record [t, v]: t is the type ("none", "bool", "num", "str", "list",     *)
(* "dict") and v the payload (a dict is a function from keys to values).   *)
(***************************************************************************)
EXTENDS Integers, Sequences, FiniteSets, TLC

VARIABLES
    pc,            \* position of the process in main()
    argv,          \* sys.argv: <<program>> or <<program, url>>
    input_url,     \* main: input_url
    hostname,      \* main: hostname
    env_type,      \* main: env_type
    cdn_host,      \* main: cdn_host
    page,          \* main: page (resp.text)
    config,        \* main: config
    namespace,     \* main: namespace
    app_id,        \* main: app_id
    apps,          \* main: apps
    app,           \* main: app
    repo,          \* main: repo
    version,       \* main: version
    entry_assets,  \* main: entry_assets
    js_files,      \* main: js_files
    idx,           \* position of the for loop over js_files
    stdout,        \* lines written to standard output
    stderr,        \* lines written to standard error
    exit_code,     \* exit status of the process (read when pc = "done")
    requests,      \* HTTP GET requests issued so far, with their outcome
    host_labels,   \* the labels the resolver's hostname was joined from
    page_src,      \* the template and fragment the page was built from
    config2        \* the result of a second extraction on the same page

vars == << pc, argv, input_url, hostname, env_type, cdn_host, page, config,
           namespace, app_id, apps, app, repo, version, entry_assets, js_files,
           idx, stdout,
           stderr, exit_code, requests, host_labels, page_src, config2 >>

---------------------------------------------------------------------------
(* Bounds of the model. *)

\* longest hostname, in labels, given to the environment resolver
MaxLabels == 3

\* longest apps manifest, in descriptors
MaxApps == 2

\* longest "js" list of an entry-assets manifest
MaxJs == 2

---------------------------------------------------------------------------
(* Text. *)

\* the ASCII characters, by code + 1
Ascii ==
  << "x00","x01","x02","x03","x04","x05","x06","x07","x08","x09","x0A","x0B","x0C","x0D","x0E","x0F",
   "x10","x11","x12","x13","x14","x15","x16","x17","x18","x19","x1A","x1B","x1C","x1D","x1E","x1F",
   " ","!","\"","#","$","%","&","'","(",")","*","+",",","-",".","/",
   "0","1","2","3","4","5","6","7","8","9",":",";","<","=",">","?",
   "@","A","B","C","D","E","F","G","H","I","J","K","L","M","N","O",
   "P","Q","R","S","T","U","V","W","X","Y","Z","[","x5C","]","^","_",
   "x60","a","b","c","d","e","f","g","h","i","j","k","l","m","n","o",
   "p","q","r","s","t","u","v","w","x","y","z","{","|","}","~","x7F" >>

Code(c) == IF \E i \in 1..Len(Ascii) : Ascii[i] = c
           THEN (CHOOSE i \in 1..Len(Ascii) : Ascii[i] = c) - 1
           ELSE 128

\* str.lower() on one character
LowerChar(c) ==
    LET k == Code(c) IN IF k >= 65 /\ k <= 90 THEN Ascii[k + 32 + 1] ELSE c

\* str.lower()
Lower(s) == [i \in 1..Len(s) |-> LowerChar(s[i])]

\* s[a..b], empty when a > b
Slice(s, a, b) == IF a > b THEN << >> ELSE SubSeq(s, a, b)

\* the first position >= from where c occurs in s, Len(s) + 1 if none
Find(s, c, from) ==
    IF \E i \in from..Len(s) : s[i] = c
    THEN CHOOSE i \in from..Len(s) :
            s[i] = c /\ \A j \in from..(i - 1) : s[j] # c
    ELSE Len(s) + 1

\* a prefix test: s holds t at position i
HasAt(s, i, t) ==
    /\ i >= 1
    /\ i + Len(t) - 1 <= Len(s)
    /\ \A k \in 1..Len(t) : s[i + k - 1] = t[k]

\* the same, ignoring case (t is lower case)
HasAtCI(s, i, t) ==
    /\ i >= 1
    /\ i + Len(t) - 1 <= Len(s)
    /\ \A k \in 1..Len(t) : LowerChar(s[i + k - 1]) = t[k]

RECURSIVE Split(_, _)
\* str.split(sep) for a one-character separator: never the empty list
Split(s, sep) ==
    LET i == Find(s, sep, 1) IN
    IF i > Len(s) THEN << s >>
    ELSE << Slice(s, 1, i - 1) >> \o Split(Slice(s, i + 1, Len(s)), sep)

RECURSIVE Join(_, _)
\* sep.join(parts)
Join(parts, sep) ==
    IF parts = << >> THEN << >>
    ELSE IF Len(parts) = 1 THEN parts[1]
    ELSE parts[1] \o << sep >> \o Join(Tail(parts), sep)

\* all sequences over S of length lo..hi
SeqsOf(S, lo, hi) == UNION { [1..n -> S] : n \in lo..hi }

---------------------------------------------------------------------------
(* determine_env_type *)

Sandbox == <<"s","a","n","d","b","o","x">>
Dev == <<"d","e","v">>
Ondemand == <<"o","n","d","e","m","a","n","d">>

\* the resolver without the sandbox override
determine_env_type_no_sandbox(h) ==
    LET parts == Split(h, ".") IN
    IF Len(parts) > 1 /\ Lower(parts[2]) \in {Dev, Ondemand} THEN "dev"
    ELSE "prod"

determine_env_type(h) ==
    LET parts == Split(h, ".") IN
    IF parts = << >> THEN "prod"
    ELSE IF Lower(parts[1]) = Sandbox THEN "prod"
    ELSE IF Len(parts) > 1 /\ Lower(parts[2]) \in {Dev, Ondemand} THEN "dev"
    ELSE "prod"

---------------------------------------------------------------------------
(* Python values. *)

None == [t |-> "none", v |-> << >>]
Str(s) == [t |-> "str", v |-> s]
Num(digits) == [t |-> "num", v |-> digits]
Bool(b) == [t |-> "bool", v |-> b]
List(xs) == [t |-> "list", v |-> xs]
Dict(f) == [t |-> "dict", v |-> f]
EmptyDict == Dict([k \in {} |-> None])

\* bool(x)
Truthy(x) ==
    CASE x.t = "none" -> FALSE
      [] x.t = "bool" -> x.v
      [] x.t = "num"  -> \E i \in 1..Len(x.v) : x.v[i] \notin {"0", "-"}
      [] x.t = "str"  -> x.v # << >>
      [] x.t = "list" -> x.v # << >>
      [] x.t = "dict" -> DOMAIN x.v # {}

\* x == y
PyEq(x, y) == x.t = y.t /\ x.v = y.v

\* d.get(key, default) on a dict d
Get(d, key, default) == IF key \in DOMAIN d.v THEN d.v[key] ELSE default

\* d with d[key] = val
DictSet(d, key, val) ==
    Dict([k \in DOMAIN d.v \cup {key} |-> IF k = key THEN val ELSE d.v[k]])

---------------------------------------------------------------------------
(* base64.b64decode(s).decode("utf-8") *)

B64Alphabet ==
  << "A","B","C","D","E","F","G","H","I","J","K","L","M","N","O","P","Q","R","S","T","U","V","W","X","Y","Z","a","b","c","d","e","f","g","h","i","j","k","l","m","n","o","p","q","r","s","t","u","v","w","x","y","z","0","1","2","3","4","5","6","7","8","9","+","/" >>

B64Value(c) == (CHOOSE i \in 1..Len(B64Alphabet) : B64Alphabet[i] = c) - 1

IsB64(c) == \E i \in 1..Len(B64Alphabet) : B64Alphabet[i] = c

RECURSIVE B64Loop(_, _, _, _, _, _)
\* binascii.a2b_base64, not strict: characters outside the alphabet are
\* skipped, a complete pad ends the input, a dangling quad is an error
B64Loop(s, i, quad_pos, leftchar, pads, out) ==
    IF i > Len(s)
    THEN [ok |-> quad_pos = 0, bytes |-> out]
    ELSE IF s[i] = "="
    THEN IF quad_pos >= 2 /\ quad_pos + pads + 1 >= 4
         THEN [ok |-> TRUE, bytes |-> out]
         ELSE B64Loop(s, i + 1, quad_pos, leftchar,
                      IF quad_pos >= 2 THEN pads + 1 ELSE pads, out)
    ELSE IF ~IsB64(s[i])
    THEN B64Loop(s, i + 1, quad_pos, leftchar, pads, out)
    ELSE LET c == B64Value(s[i]) IN
         CASE quad_pos = 0 -> B64Loop(s, i + 1, 1, c, 0, out)
           [] quad_pos = 1 ->
                B64Loop(s, i + 1, 2, c % 16, 0,
                        Append(out, leftchar * 4 + c \div 16))
           [] quad_pos = 2 ->
                B64Loop(s, i + 1, 3, c % 4, 0,
                        Append(out, leftchar * 16 + c \div 4))
           [] quad_pos = 3 ->
                B64Loop(s, i + 1, 0, 0, 0, Append(out, leftchar * 64 + c))

\* base64.b64decode(s) for a str s: a non-ASCII character is a ValueError
b64decode(s) ==
    IF \E i \in 1..Len(s) : Code(s[i]) >= 128
    THEN [ok |-> FALSE, bytes |-> << >>]
    ELSE B64Loop(s, 1, 0, 0, 0, << >>)

IsCont(b) == b >= 128 /\ b <= 191

RECURSIVE Utf8Loop(_, _, _)
\* bytes.decode("utf-8") for one- and two-byte sequences; a longer
\* sequence is outside the inputs of this model and is refused
Utf8Loop(bs, i, out) ==
    IF i > Len(bs) THEN [ok |-> TRUE, text |-> out]
    ELSE IF bs[i] < 128
    THEN Utf8Loop(bs, i + 1, Append(out, Ascii[bs[i] + 1]))
    ELSE IF bs[i] >= 194 /\ bs[i] <= 223 /\ i < Len(bs) /\ IsCont(bs[i + 1])
    THEN Utf8Loop(bs, i + 2,
                  Append(out, "U+" \o ToString((bs[i] - 192) * 64
                                               + bs[i + 1] - 128)))
    ELSE [ok |-> FALSE, text |-> << >>]

decode_utf8(bs) == Utf8Loop(bs, 1, << >>)

---------------------------------------------------------------------------
(* json.loads: objects, arrays, strings without escapes, integers, true,   *)
(* false and null, with spaces between tokens.                             *)

Fail == [ok |-> FALSE, val |-> None, pos |-> 0]
Got(val, pos) == [ok |-> TRUE, val |-> val, pos |-> pos]

RECURSIVE SkipWs(_, _)
SkipWs(s, i) == IF i <= Len(s) /\ s[i] = " " THEN SkipWs(s, i + 1) ELSE i

IsDigit(c) == c \in {"0", "1", "2", "3", "4", "5", "6", "7", "8", "9"}

RECURSIVE DigitsEnd(_, _)
\* the position after the digits that start at i
DigitsEnd(s, i) ==
    IF i <= Len(s) /\ IsDigit(s[i]) THEN DigitsEnd(s, i + 1) ELSE i

\* a string: from the quote at i to the next quote
ParseString(s, i) ==
    LET e == Find(s, "\"", i + 1) IN
    IF e > Len(s) \/ \E k \in (i + 1)..(e - 1) : s[k] = "x5C" \/ Code(s[k]) < 32
    THEN Fail
    ELSE Got(Str(Slice(s, i + 1, e - 1)), e + 1)

\* an integer: -?(0|[1-9][0-9]*)
ParseNumber(s, i) ==
    LET d == IF s[i] = "-" THEN i + 1 ELSE i
        e == DigitsEnd(s, d)
    IN  IF e = d THEN Fail
        ELSE IF s[d] = "0" THEN Got(Num(<< "0" >>), d + 1)
        ELSE Got(Num(Slice(s, i, e - 1)), e)

RECURSIVE ParseValue(_, _)
RECURSIVE ParseElems(_, _, _)
RECURSIVE ParseMembers(_, _, _)

\* the elements of an array after "[" or ",", up to "]"
ParseElems(s, i, acc) ==
    LET r == ParseValue(s, i) IN
    IF ~r.ok THEN Fail
    ELSE LET j == SkipWs(s, r.pos) IN
         IF j > Len(s) THEN Fail
         ELSE IF s[j] = "]" THEN Got(List(Append(acc, r.val)), j + 1)
         ELSE IF s[j] = "," THEN ParseElems(s, j + 1, Append(acc, r.val))
         ELSE Fail

\* the members of an object after "{" or ",", up to "}": a later
\* duplicate of a key replaces the earlier one
ParseMembers(s, i, acc) ==
    LET k == SkipWs(s, i) IN
    IF k > Len(s) \/ s[k] # "\"" THEN Fail
    ELSE LET key == ParseString(s, k) IN
         IF ~key.ok THEN Fail
         ELSE LET c == SkipWs(s, key.pos) IN
              IF c > Len(s) \/ s[c] # ":" THEN Fail
              ELSE LET r == ParseValue(s, c + 1) IN
                   IF ~r.ok THEN Fail
                   ELSE LET j == SkipWs(s, r.pos)
                            d == DictSet(acc, key.val.v, r.val)
                        IN  IF j > Len(s) THEN Fail
                            ELSE IF s[j] = "}" THEN Got(d, j + 1)
                            ELSE IF s[j] = "," THEN ParseMembers(s, j + 1, d)
                            ELSE Fail

ParseValue(s, i0) ==
    LET i == SkipWs(s, i0) IN
    IF i > Len(s) THEN Fail
    ELSE IF HasAt(s, i, <<"n","u","l","l">>) THEN Got(None, i + 4)
    ELSE IF HasAt(s, i, <<"t","r","u","e">>) THEN Got(Bool(TRUE), i + 4)
    ELSE IF HasAt(s, i, <<"f","a","l","s","e">>) THEN Got(Bool(FALSE), i + 5)
    ELSE IF s[i] = "\"" THEN ParseString(s, i)
    ELSE IF s[i] = "-" \/ IsDigit(s[i]) THEN ParseNumber(s, i)
    ELSE IF s[i] = "["
    THEN LET j == SkipWs(s, i + 1) IN
         IF j <= Len(s) /\ s[j] = "]" THEN Got(List(<< >>), j + 1)
         ELSE ParseElems(s, i + 1, << >>)
    ELSE IF s[i] = "{"
    THEN LET j == SkipWs(s, i + 1) IN
         IF j <= Len(s) /\ s[j] = "}" THEN Got(EmptyDict, j + 1)
         ELSE ParseMembers(s, i + 1, EmptyDict)
    ELSE Fail

\* json.loads(text): [ok, val]; trailing text is an error
json_loads(text) ==
    LET r == ParseValue(text, 1) IN
    IF r.ok /\ SkipWs(text, r.pos) = Len(text) + 1
    THEN [ok |-> TRUE, val |-> r.val]
    ELSE [ok |-> FALSE, val |-> None]

---------------------------------------------------------------------------
(* parse_bootstrap_config *)

IsQuote(c) == c \in {"\"", "'"}

\* no ">" in s[a..b]
NoGt(s, a, b) == \A k \in a..b : s[k] # ">"

\* id=["\']cl-bootstrap["\'] at p, ignoring case
IdAt(s, p) ==
    /\ p + 16 <= Len(s)
    /\ HasAtCI(s, p, <<"i","d","=">>)
    /\ IsQuote(s[p + 3])
    /\ HasAtCI(s, p + 4, <<"c","l","-","b","o","o","t","s","t","r","a","p">>)
    /\ IsQuote(s[p + 16])

\* the position of "#" when src=["\']([^"#]+)#([^"\']+)["\'] matches at q,
\* else 0
HashAt(s, q) ==
    LET h == Find(s, "#", q + 5) IN
    IF /\ q + 4 <= Len(s)
       /\ HasAtCI(s, q, <<"s","r","c","=">>)
       /\ IsQuote(s[q + 4])
       /\ h <= Len(s)
       /\ h > q + 5
       /\ \A k \in (q + 5)..(h - 1) : s[k] # "\""
       /\ \E e \in (h + 2)..Len(s) :
             IsQuote(s[e]) /\ \A k \in (h + 1)..(e - 1) : ~IsQuote(s[k])
    THEN h ELSE 0

\* the positions where [^>]+src=... can match after position a
SrcAfter(s, a) ==
    { q \in (a + 1)..Len(s) : NoGt(s, a, q - 1) /\ HashAt(s, q) # 0 }

\* the positions where [^>]+id=...[^>]+src=... can match after <script at i
IdAfter(s, i) ==
    { p \in (i + 8)..Len(s) :
        NoGt(s, i + 7, p - 1) /\ IdAt(s, p) /\ SrcAfter(s, p + 17) # {} }

Max(S) == CHOOSE x \in S : \A y \in S : y <= x
Min(S) == CHOOSE x \in S : \A y \in S : x <= y

\* re.search(pattern, page, re.IGNORECASE): [found, group2].  The match is
\* the leftmost one; each greedy [^>]+ takes the longest run that lets the
\* rest match
re_search(s) ==
    LET starts == { i \in 1..Len(s) :
                      HasAtCI(s, i, <<"<","s","c","r","i","p","t">>) /\ IdAfter(s, i) # {} }
    IN  IF starts = {} THEN [found |-> FALSE, group2 |-> << >>]
        ELSE LET i == Min(starts)
                 p == Max(IdAfter(s, i))
                 q == Max(SrcAfter(s, p + 17))
                 h == HashAt(s, q)
                 e == CHOOSE e \in (h + 2)..Len(s) :
                        IsQuote(s[e]) /\ \A k \in (h + 1)..(e - 1) : ~IsQuote(s[k])
             IN  [found |-> TRUE, group2 |-> Slice(s, h + 1, e - 1)]

parse_bootstrap_config(p) ==
    LET m == re_search(p) IN
    IF ~m.found THEN None
    ELSE LET raw == b64decode(m.group2) IN
         IF ~raw.ok THEN None
         ELSE LET decoded == decode_utf8(raw.bytes) IN
              IF ~decoded.ok THEN None
              ELSE LET js == json_loads(decoded.text) IN
                   IF ~js.ok THEN None ELSE js.val

---------------------------------------------------------------------------
(* The inputs: hostnames, pages, manifests. *)

\* labels of the hostnames given to the environment resolver
Labels ==
    { << >>, <<"s","a","n","d","b","o","x">>, <<"S","a","n","d","B","o","x">>, <<"d","e","v">>, <<"D","E","V">>, <<"o","n","d","e","m","a","n","d">>,
      <<"O","n","D","e","m","a","n","d">>, <<"w","w","w">>, <<"d","e","v","s">> }

\* page templates: the text before and after the fragment, and whether the
\* pattern of the extractor matches a page built from a non-empty fragment
\* without quotes
Templates ==
    { [name |-> "double-quoted", tag |-> TRUE,
       pre  |-> <<"<","h","t","m","l",">","<","s","c","r","i","p","t"," ","i","d","=","\"","c","l","-","b","o","o","t","s","t","r","a","p","\""," ","s","r","c","=","\"","/","b",".","j","s","#">>,
       post |-> <<"\"",">","<","/","s","c","r","i","p","t",">","<","/","h","t","m","l",">">>],
      [name |-> "upper-case", tag |-> TRUE,
       pre  |-> <<"<","S","C","R","I","P","T"," ","I","D","=","'","C","L","-","B","O","O","T","S","T","R","A","P","'"," ","S","R","C","=","'","/","b",".","j","s","#">>,
       post |-> <<"'",">">>],
      [name |-> "second-script", tag |-> TRUE,
       pre  |-> <<"<","s","c","r","i","p","t"," ","s","r","c","=","\"","a",".","j","s","\"",">","<","/","s","c","r","i","p","t",">","<","s","c","r","i","p","t"," ","d","e","f","e","r"," ","i","d","=","\"","c","l","-","b","o","o","t","s","t","r","a","p","\""," ","a","s","y","n","c"," ","s","r","c","=","\"","/","b",".","j","s","#">>,
       post |-> <<"\"",">">>],
      [name |-> "src-first", tag |-> FALSE,
       pre  |-> <<"<","s","c","r","i","p","t"," ","s","r","c","=","\"","/","b",".","j","s","#">>,
       post |-> <<"\""," ","i","d","=","\"","c","l","-","b","o","o","t","s","t","r","a","p","\"",">">>],
      [name |-> "other-id", tag |-> FALSE,
       pre  |-> <<"<","s","c","r","i","p","t"," ","i","d","=","\"","o","t","h","e","r","\""," ","s","r","c","=","\"","/","b",".","j","s","#">>,
       post |-> <<"\"",">">>],
      [name |-> "no-script", tag |-> FALSE,
       pre  |-> <<"<","h","t","m","l",">","<","b","o","d","y",">">>,
       post |-> <<"<","/","b","o","d","y",">","<","/","h","t","m","l",">">>] }

\* fragments: the text after "#", and what it decodes to
Fragments ==
    { [kind |-> "no-fragment",  text |-> << >>],
      [kind |-> "bad-base64",   text |-> <<"a","b","c">>],
      [kind |-> "bad-base64",   text |-> <<"a">>],
      [kind |-> "bad-utf8",     text |-> <<"/","w","=","=">>],
      [kind |-> "bad-json",     text |-> <<"e","A","=","=">>],
      [kind |-> "bad-json",     text |-> <<"e","y","J","h","c","H","B","J","Z","C","I","6","I","n","g","i","f","S","B","4">>],
      [kind |-> "list",         text |-> <<"W","z","F","d">>],
      [kind |-> "list",         text |-> <<"W","z","-","F",".","d">>],
      [kind |-> "empty-list",   text |-> <<"W","1","0","=">>],
      [kind |-> "null",         text |-> <<"b","n","V","s","b","A","=","=">>],
      [kind |-> "number",       text |-> <<"N","w","=","=">>],
      [kind |-> "zero",         text |-> <<"M","A","=","=">>],
      [kind |-> "string",       text |-> <<"I","n","M","i">>],
      [kind |-> "empty-string", text |-> <<"I","i","I","=">>],
      [kind |-> "true",         text |-> <<"d","H","J","1","Z","Q","=","=">>],
      [kind |-> "false",        text |-> <<"Z","m","F","s","c","2","U","=">>],
      [kind |-> "empty-dict",   text |-> <<"e","3","0","=">>],
      [kind |-> "dict",         text |-> <<"e","y","J","h","c","H","B","J","Z","C","I","6","I","n","g","i","f","Q","=","=">>],
      [kind |-> "dict",         text |-> <<"e","y","J","u","Y","W","1","l","c","3","B","h","Y","2","U","i","O","i","J","p","I","n","0","=">>],
      [kind |-> "dict",
       text |-> <<"e","y","J","u","Y","W","1","l","c","3","B","h","Y","2","U","i","O","i","J","z","d","G","F","u","Z","G","F","y","Z","C","I","s","I","m","F","w","c","E","l","k","I","j","o","i","e","C","J","9">>] }

MkPage(tpl, frag) == tpl.pre \o frag.text \o tpl.post

\* what a page was built from
Src(tpl, frag) ==
    [tpl |-> tpl.name,
     tag |-> tpl.tag /\ frag.kind # "no-fragment",
     kind |-> frag.kind]

NoSrc == [tpl |-> "", tag |-> FALSE, kind |-> ""]

\* the pages the target fetch can return
MainFragments ==
    { f \in Fragments :
        \/ f.kind \in {"no-fragment", "bad-utf8", "empty-list", "null",
                       "number", "string", "empty-dict", "dict"}
        \/ f.text \in {<<"a","b","c">>, <<"e","A","=","=">>, <<"W","z","F","d">>} }

MainPages ==
    { [src |-> Src(t, f), body |-> MkPage(t, f)] :
        t \in {t \in Templates : t.name = "double-quoted"},
        f \in MainFragments }
    \cup
    { [src |-> Src(t, f), body |-> MkPage(t, f)] :
        t \in {t \in Templates : t.name = "no-script"},
        f \in {f \in MainFragments : f.kind \in {"no-fragment", "dict"}} }

KeyId == <<"i","d">>
KeyRepo == <<"r","e","p","o">>
KeyVersion == <<"v","e","r","s","i","o","n">>
KeyJs == <<"j","s">>
KeyCss == <<"c","s","s">>
KeyNamespace == <<"n","a","m","e","s","p","a","c","e">>
KeyAppId == <<"a","p","p","I","d">>
Standard == <<"s","t","a","n","d","a","r","d">>
WebPortal == <<"w","e","b","-","p","o","r","t","a","l">>

\* a dict from a set of <<key, text>> pairs with distinct keys
Rec(pairs) ==
    Dict([k \in {p[1] : p \in pairs} |->
            Str((CHOOSE p \in pairs : p[1] = k)[2])])

\* application descriptors, some without an id or a repo
Descriptors ==
    { Rec({<<KeyId, WebPortal>>, <<KeyRepo, <<"p","o","r","t","a","l">>>>,
           <<KeyVersion, <<"3",".","2",".","1">>>>}),
      Rec({<<KeyId, WebPortal>>, <<KeyRepo, <<"l","e","g","a","c","y">>>>,
           <<KeyVersion, <<"1",".","0">>>>}),
      Rec({<<KeyId, <<"x">>>>, <<KeyRepo, <<"x","r">>>>, <<KeyVersion, <<"2">>>>}),
      Rec({<<KeyId, <<"x">>>>, <<KeyVersion, <<"2">>>>}),
      Rec({<<KeyRepo, <<"p","o","r","t","a","l">>>>, <<KeyVersion, <<"1",".","0">>>>}) }

\* the apps manifests a successful fetch can return
AppsManifests == { List(m) : m \in SeqsOf(Descriptors, 0, MaxApps) }

Paths == { Str(<<"m","a","i","n",".","a","b","c","1","2","3",".","j","s">>), Str(<<"v","e","n","d","o","r",".","d","e","f","4","5","6",".","j","s">>) }

\* the entry-assets manifests a successful fetch can return
AssetManifests ==
    { Dict([k \in {KeyCss} |-> List(<< Str(<<"m","a","i","n",".","c","s","s">>) >>)]) }
    \cup { Dict([k \in {KeyJs} |-> List(p)]) : p \in SeqsOf(Paths, 0, MaxJs) }

Prog == <<"y","a","l","l","a","h",".","p","y">>

\* the URL arguments
Urls ==
    { <<"s","a","n","d","b","o","x",".","d","e","v",".","i","o">>, <<"h","t","t","p","s",":","/","/","a",".","d","e","v",".","i","o","/","p">>, <<"H","T","T","P",":","/","/","B",".","O","n","D","e","m","a","n","d",".","i","o">>,
      <<"a",".","d","e","v",".","i","o",":","8","0","8","0">> }

Argvs == { << Prog >> } \cup { << Prog, u >> : u \in Urls }

\* the response statuses of the model
Statuses == {200, 404, 500}

\* the failures of requests.get before a response arrives
NetworkErrors == { <<"C","o","n","n","e","c","t","i","o","n","E","r","r","o","r">>, <<"T","i","m","e","o","u","t">> }

---------------------------------------------------------------------------
(* urllib.parse.urlparse, as far as main reads it. *)

IsAlpha(c) == LET k == Code(c) IN (k >= 65 /\ k <= 90) \/ (k >= 97 /\ k <= 122)

IsSchemeChar(c) == IsAlpha(c) \/ IsDigit(c) \/ c \in {"+", "-", "."}

\* the position of the ":" that ends the scheme, 0 when there is no scheme
SchemeEnd(url) ==
    LET i == Find(url, ":", 1) IN
    IF /\ i <= Len(url)
       /\ i > 1
       /\ IsAlpha(url[1])
       /\ \A k \in 1..(i - 1) : IsSchemeChar(url[k])
    THEN i ELSE 0

\* urlparse(url).scheme
url_scheme(url) == Lower(Slice(url, 1, SchemeEnd(url) - 1))

\* urlparse(url).netloc
url_netloc(url) ==
    LET rest == Slice(url, SchemeEnd(url) + 1, Len(url))
        delim == Min({ Find(rest, c, 3) : c \in {"/", "?", "#"} })
    IN  IF HasAt(rest, 1, <<"/","/">>) THEN Slice(rest, 3, delim - 1) ELSE << >>

\* urlparse(url).hostname or "": the netloc after the last "@" and before
\* the first ":", in lower case
url_hostname(url) ==
    LET netloc == url_netloc(url)
        ats == { i \in 1..Len(netloc) : netloc[i] = "@" }
        hostinfo == IF ats = {} THEN netloc
                    ELSE Slice(netloc, Max(ats) + 1, Len(netloc))
    IN  Lower(Slice(hostinfo, 1, Find(hostinfo, ":", 1) - 1))

---------------------------------------------------------------------------
(* The helpers of main. *)

ProdHost == <<"h","t","t","p","s",":","/","/","c","l","o","v","e","r","s","t","a","t","i","c",".","c","o","m">>
DevHost == <<"h","t","t","p","s",":","/","/","d","e","v",".","c","l","o","v","e","r","s","t","a","t","i","c",".","c","o","m">>

pick_cdn_host(env) == IF env = "prod" THEN ProdHost ELSE DevHost

\* str(x) of a text value, as an f-string or print() renders it
Text(x) == x.v

base_folder(ns) ==
    IF PyEq(ns, Str(Standard)) THEN <<"a","p","p","s">> ELSE <<"i","n","t","e","r","n","a","l","-","a","p","p","s">>

\* the URL load_apps_config requests
apps_url(cdn, ns) ==
    cdn \o <<"/","w","e","b","/">> \o base_folder(ns) \o <<"/","_","c","o","n","f","i","g","/","a","p","p","s",".","j","s","o","n">>

\* the entry-assets URL with the folder fixed to "apps"
assets_url_fixed_folder(cdn, ns, rp, ver) ==
    cdn \o <<"/","w","e","b","/">> \o <<"a","p","p","s">> \o <<"/">> \o Text(rp) \o <<"/">>
        \o Text(ver) \o <<"/","e","n","t","r","y","-","a","s","s","e","t","s",".","j","s","o","n">>

\* the URL fetch_entry_assets requests
assets_url(cdn, ns, rp, ver) ==
    cdn \o <<"/","w","e","b","/">> \o base_folder(ns) \o <<"/">> \o Text(rp) \o <<"/">>
        \o Text(ver) \o <<"/","e","n","t","r","y","-","a","s","s","e","t","s",".","j","s","o","n">>

\* the scan returning the last descriptor with the id
find_app_last(manifest, id) ==
    LET hits == { i \in 1..Len(manifest.v) : PyEq(Get(manifest.v[i], KeyId, None), id) }
    IN  IF hits = {} THEN None ELSE manifest.v[Max(hits)]

find_app(manifest, id) ==
    LET hits == { i \in 1..Len(manifest.v) : PyEq(Get(manifest.v[i], KeyId, None), id) }
    IN  IF hits = {} THEN None ELSE manifest.v[Min(hits)]

\* the lines main writes
UsageLine(prog) == <<"U","s","a","g","e",":"," ">> \o prog \o <<" ","<","u","r","l",">">>
NoJsLine == <<"N","o"," ","J","S"," ","b","u","n","d","l","e","s"," ","f","o","u","n","d",".">>
PageError(url, exc) ==
    [text |-> "Error fetching {input_url}: {exc}", args |-> << url, exc >>]
AppsError(exc) ==
    [text |-> "Unable to load apps configuration: {exc}", args |-> << exc >>]
NotFound(id) ==
    [text |-> "Application ID '{app_id}' not found in apps configuration.",
     args |-> << Text(id) >>]
AssetsError(exc) ==
    [text |-> "Unable to fetch entry assets: {exc}", args |-> << exc >>]
\* the interpreter's report of an exception no handler catches
Traceback(exc) ==
    [text |-> "Traceback (most recent call last):", args |-> << exc >>]

\* one GET request and how it ended: the status of the response, or 0 and
\* the exception requests.get raised
Request(kind, url, status, exc) ==
    [kind |-> kind, url |-> url, status |-> status, exc |-> exc]

\* sys.exit(1), or an uncaught exception: the process ends with status 1
Exit1 == pc' = "done" /\ exit_code' = 1

---------------------------------------------------------------------------
(* main *)

Init ==
    /\ pc = "start"
    /\ argv \in Argvs
    /\ input_url = << >>
    /\ hostname = << >>
    /\ env_type = ""
    /\ cdn_host = << >>
    /\ page = << >>
    /\ config = None
    /\ namespace = None
    /\ app_id = None
    /\ apps = None
    /\ app = None
    /\ repo = None
    /\ version = None
    /\ entry_assets = None
    /\ js_files = None
    /\ idx = 0
    /\ stdout = << >>
    /\ stderr = << >>
    /\ exit_code = 0
    /\ requests = << >>
    /\ host_labels = << >>
    /\ page_src = NoSrc
    /\ config2 = None

\* lines 75-77: no URL argument
Usage ==
    /\ pc = "start"
    /\ Len(argv) < 2
    /\ stdout' = Append(stdout, UsageLine(argv[1]))
    /\ Exit1
    /\ UNCHANGED << argv, input_url, hostname, env_type, cdn_host, page,
                    config, namespace, app_id, apps, app, repo, version,
                    entry_assets, js_files, idx, stderr, requests,
                    host_labels, page_src, config2 >>

\* lines 78-85: the target URL, its hostname, the environment, the host
Normalize ==
    /\ pc = "start"
    /\ Len(argv) >= 2
    /\ input_url' = IF url_scheme(argv[2]) = << >>
                    THEN <<"h","t","t","p","s",":","/","/">> \o argv[2] ELSE argv[2]
    /\ hostname' = url_hostname(input_url')
    /\ env_type' = determine_env_type(hostname')
    /\ cdn_host' = pick_cdn_host(env_type')
    /\ pc' = "fetch_page"
    /\ UNCHANGED << argv, page, config, namespace, app_id, apps, app, repo,
                    version, entry_assets, js_files, idx, stdout, stderr,
                    exit_code, requests, host_labels, page_src, config2 >>

\* lines 87-92, requests.get raises
FetchPageFails ==
    /\ pc = "fetch_page"
    /\ \E exc \in NetworkErrors :
         /\ requests' = Append(requests, Request("page", input_url, 0, exc))
         /\ stderr' = Append(stderr, PageError(input_url, exc))
    /\ Exit1
    /\ UNCHANGED << argv, input_url, hostname, env_type, cdn_host, page,
                    config, namespace, app_id, apps, app, repo, version,
                    entry_assets, js_files, idx, stdout, host_labels,
                    page_src, config2 >>

\* lines 87-89, requests.get returns a response: its status is not read
FetchPageResponds ==
    /\ pc = "fetch_page"
    /\ \E status \in Statuses, p \in MainPages :
         /\ requests' = Append(requests, Request("page", input_url, status, << >>))
         /\ page' = p.body
         /\ page_src' = p.src
    /\ pc' = "parse"
    /\ UNCHANGED << argv, input_url, hostname, env_type, cdn_host, config,
                    namespace, app_id, apps, app, repo, version, entry_assets,
                    js_files, idx, stdout, stderr, exit_code, host_labels,
                    config2 >>

\* lines 93-99: the bootstrap configuration, or the defaults.  A result
\* that is true and has no get() raises AttributeError, which nothing catches
Parse ==
    /\ pc = "parse"
    /\ config' = parse_bootstrap_config(page)
    /\ IF ~Truthy(config')
       THEN /\ namespace' = Str(Standard)
            /\ app_id' = Str(WebPortal)
            /\ pc' = "load_apps"
            /\ UNCHANGED << stderr, exit_code >>
       ELSE IF config'.t = "dict"
       THEN /\ namespace' = Get(config', KeyNamespace, Str(Standard))
            /\ app_id' = Get(config', KeyAppId, Str(WebPortal))
            /\ pc' = "load_apps"
            /\ UNCHANGED << stderr, exit_code >>
       ELSE /\ namespace' = Str(Standard)
            /\ app_id' = Str(WebPortal)
            /\ stderr' = Append(stderr, Traceback(<<"A","t","t","r","i","b","u","t","e","E","r","r","o","r">>))
            /\ Exit1
    /\ UNCHANGED << argv, input_url, hostname, env_type, cdn_host, page, apps,
                    app, repo, version, entry_assets, js_files, idx, stdout,
                    requests, host_labels, page_src, config2 >>

\* what a GET of a JSON manifest can come to, as load_apps_config and
\* fetch_entry_assets see it: requests.get raises, raise_for_status raises
\* on a 4xx or 5xx status, resp.json() raises on a body that is not JSON
FetchFailures ==
    { [status |-> 0, exc |-> e] : e \in NetworkErrors }
    \cup { [status |-> s, exc |-> <<"H","T","T","P","E","r","r","o","r">>] :
             s \in { s \in Statuses : s >= 400 /\ s < 600 } }
    \cup { [status |-> s, exc |-> <<"J","S","O","N","D","e","c","o","d","e","E","r","r","o","r">>] :
             s \in { s \in Statuses : s < 400 } }

\* lines 101-105, load_apps_config raises
LoadAppsFails ==
    /\ pc = "load_apps"
    /\ \E f \in FetchFailures :
         /\ requests' = Append(requests,
               Request("apps", apps_url(cdn_host, namespace), f.status, f.exc))
         /\ stderr' = Append(stderr, AppsError(f.exc))
    /\ Exit1
    /\ UNCHANGED << argv, input_url, hostname, env_type, cdn_host, page,
                    config, namespace, app_id, apps, app, repo, version,
                    entry_assets, js_files, idx, stdout, host_labels,
                    page_src, config2 >>

\* lines 101-102, load_apps_config returns the manifest
LoadAppsReturns ==
    /\ pc = "load_apps"
    /\ \E s \in { s \in Statuses : s < 400 }, m \in AppsManifests :
         /\ requests' = Append(requests,
               Request("apps", apps_url(cdn_host, namespace), s, << >>))
         /\ apps' = m
    /\ pc' = "find_app"
    /\ UNCHANGED << argv, input_url, hostname, env_type, cdn_host, page,
                    config, namespace, app_id, app, repo, version,
                    entry_assets, js_files, idx, stdout, stderr, exit_code,
                    host_labels, page_src, config2 >>

\* lines 106-109: no descriptor has the id
AppNotFound ==
    /\ pc = "find_app"
    /\ app' = find_app(apps, app_id)
    /\ ~Truthy(app')
    /\ stderr' = Append(stderr, NotFound(app_id))
    /\ Exit1
    /\ UNCHANGED << argv, input_url, hostname, env_type, cdn_host, page,
                    config, namespace, app_id, apps, repo, version,
                    entry_assets, js_files, idx, stdout, requests,
                    host_labels, page_src, config2 >>

\* lines 106-111: a descriptor has the id; app["repo"] or app["version"]
\* raises KeyError when the descriptor lacks the key
AppFound ==
    /\ pc = "find_app"
    /\ app' = find_app(apps, app_id)
    /\ Truthy(app')
    /\ IF KeyRepo \notin DOMAIN app'.v
       THEN /\ stderr' = Append(stderr, Traceback(<<"K","e","y","E","r","r","o","r">>))
            /\ Exit1
            /\ UNCHANGED << repo, version >>
       ELSE IF KeyVersion \notin DOMAIN app'.v
       THEN /\ repo' = app'.v[KeyRepo]
            /\ stderr' = Append(stderr, Traceback(<<"K","e","y","E","r","r","o","r">>))
            /\ Exit1
            /\ UNCHANGED version
       ELSE /\ repo' = app'.v[KeyRepo]
            /\ version' = app'.v[KeyVersion]
            /\ pc' = "fetch_assets"
            /\ UNCHANGED << stderr, exit_code >>
    /\ UNCHANGED << argv, input_url, hostname, env_type, cdn_host, page,
                    config, namespace, app_id, apps, entry_assets, js_files,
                    idx, stdout, requests, host_labels, page_src, config2 >>

\* the failure path of the entry-assets fetch falling through to the notice
FetchAssetsFailsPrintsNotice ==
    /\ pc = "fetch_assets"
    /\ \E f \in FetchFailures :
         /\ requests' = Append(requests,
               Request("assets", assets_url(cdn_host, namespace, repo, version),
                       f.status, f.exc))
         /\ stderr' = Append(stderr, AssetsError(f.exc))
    /\ stdout' = Append(stdout, NoJsLine)
    /\ Exit1
    /\ UNCHANGED << argv, input_url, hostname, env_type, cdn_host, page,
                    config, namespace, app_id, apps, app, repo, version,
                    entry_assets, js_files, idx, host_labels, page_src,
                    config2 >>

\* lines 113-117, fetch_entry_assets raises
FetchAssetsFails ==
    /\ pc = "fetch_assets"
    /\ \E f \in FetchFailures :
         /\ requests' = Append(requests,
               Request("assets", assets_url(cdn_host, namespace, repo, version),
                       f.status, f.exc))
         /\ stderr' = Append(stderr, AssetsError(f.exc))
    /\ Exit1
    /\ UNCHANGED << argv, input_url, hostname, env_type, cdn_host, page,
                    config, namespace, app_id, apps, app, repo, version,
                    entry_assets, js_files, idx, stdout, host_labels,
                    page_src, config2 >>

\* lines 113-114, fetch_entry_assets returns the manifest
FetchAssetsReturns ==
    /\ pc = "fetch_assets"
    /\ \E s \in { s \in Statuses : s < 400 }, m \in AssetManifests :
         /\ requests' = Append(requests,
               Request("assets", assets_url(cdn_host, namespace, repo, version),
                       s, << >>))
         /\ entry_assets' = m
    /\ pc' = "print"
    /\ UNCHANGED << argv, input_url, hostname, env_type, cdn_host, page,
                    config, namespace, app_id, apps, app, repo, version,
                    js_files, idx, stdout, stderr, exit_code, host_labels,
                    page_src, config2 >>

\* lines 119-121: the "js" list; an empty or absent one prints the notice
\* and main returns
PrintStart ==
    /\ pc = "print"
    /\ js_files' = Get(entry_assets, KeyJs, List(<< >>))
    /\ IF ~Truthy(js_files')
       THEN /\ stdout' = Append(stdout, NoJsLine)
            /\ pc' = "done"
            /\ idx' = idx
       ELSE /\ stdout' = stdout
            /\ pc' = "loop"
            /\ idx' = 1
    /\ UNCHANGED << argv, input_url, hostname, env_type, cdn_host, page,
                    config, namespace, app_id, apps, app, repo, version,
                    entry_assets, stderr, exit_code, requests, host_labels,
                    page_src, config2 >>

\* the loop walking the list from its end
PrintPathReversed ==
    /\ pc = "loop"
    /\ stdout' = Append(stdout, Text(js_files.v[Len(js_files.v) + 1 - idx]))
    /\ idx' = idx + 1
    /\ pc' = IF idx = Len(js_files.v) THEN "done" ELSE "loop"
    /\ UNCHANGED << argv, input_url, hostname, env_type, cdn_host, page,
                    config, namespace, app_id, apps, app, repo, version,
                    entry_assets, js_files, stderr, exit_code, requests,
                    host_labels, page_src, config2 >>

\* lines 123-124: one turn of the loop; after the last one main returns
PrintPath ==
    /\ pc = "loop"
    /\ stdout' = Append(stdout, Text(js_files.v[idx]))
    /\ idx' = idx + 1
    /\ pc' = IF idx = Len(js_files.v) THEN "done" ELSE "loop"
    /\ UNCHANGED << argv, input_url, hostname, env_type, cdn_host, page,
                    config, namespace, app_id, apps, app, repo, version,
                    entry_assets, js_files, stderr, exit_code, requests,
                    host_labels, page_src, config2 >>

Next ==
    \/ Usage
    \/ Normalize
    \/ FetchPageFails
    \/ FetchPageResponds
    \/ Parse
    \/ LoadAppsFails
    \/ LoadAppsReturns
    \/ AppNotFound
    \/ AppFound
    \/ FetchAssetsFails
    \/ FetchAssetsReturns
    \/ PrintStart
    \/ PrintPath

Spec == Init /\ [][Next]_vars

---------------------------------------------------------------------------
(* The environment resolver on its own. *)

InitEnv ==
    /\ pc = "resolve"
    /\ host_labels \in SeqsOf(Labels, 1, MaxLabels)
    /\ hostname = Join(host_labels, ".")
    /\ argv = << Prog >>
    /\ input_url = << >>
    /\ env_type = ""
    /\ cdn_host = << >>
    /\ page = << >>
    /\ config = None
    /\ namespace = None
    /\ app_id = None
    /\ apps = None
    /\ app = None
    /\ repo = None
    /\ version = None
    /\ entry_assets = None
    /\ js_files = None
    /\ idx = 0
    /\ stdout = << >>
    /\ stderr = << >>
    /\ exit_code = 0
    /\ requests = << >>
    /\ page_src = NoSrc
    /\ config2 = None

\* determine_env_type(hostname)
Resolve ==
    /\ pc = "resolve"
    /\ env_type' = determine_env_type(hostname)
    /\ pc' = "resolved"
    /\ UNCHANGED << argv, input_url, hostname, cdn_host, page, config,
                    namespace, app_id, apps, app, repo, version, entry_assets,
                    js_files, idx, stdout, stderr, exit_code, requests,
                    host_labels, page_src, config2 >>

NextEnv == Resolve

SpecEnv == InitEnv /\ [][NextEnv]_vars

---------------------------------------------------------------------------
(* The bootstrap extractor on its own, run twice on one page. *)

InitBoot ==
    /\ pc = "extract"
    /\ \E t \in Templates, f \in Fragments :
         /\ page = MkPage(t, f)
         /\ page_src = Src(t, f)
    /\ argv = << Prog >>
    /\ input_url = << >>
    /\ hostname = << >>
    /\ host_labels = << >>
    /\ env_type = ""
    /\ cdn_host = << >>
    /\ config = None
    /\ namespace = None
    /\ app_id = None
    /\ apps = None
    /\ app = None
    /\ repo = None
    /\ version = None
    /\ entry_assets = None
    /\ js_files = None
    /\ idx = 0
    /\ stdout = << >>
    /\ stderr = << >>
    /\ exit_code = 0
    /\ requests = << >>
    /\ config2 = None

\* parse_bootstrap_config(page)
Extract ==
    /\ pc = "extract"
    /\ config' = parse_bootstrap_config(page)
    /\ pc' = "extract_again"
    /\ UNCHANGED << argv, input_url, hostname, env_type, cdn_host, page,
                    namespace, app_id, apps, app, repo, version, entry_assets,
                    js_files, idx, stdout, stderr, exit_code, requests,
                    host_labels, page_src, config2 >>

\* parse_bootstrap_config(page), once more
ExtractAgain ==
    /\ pc = "extract_again"
    /\ config2' = parse_bootstrap_config(page)
    /\ pc' = "extracted"
    /\ UNCHANGED << argv, input_url, hostname, env_type, cdn_host, page,
                    config, namespace, app_id, apps, app, repo, version,
                    entry_assets, js_files, idx, stdout, stderr, exit_code,
                    requests, host_labels, page_src >>

NextBoot == Extract \/ ExtractAgain

SpecBoot == InitBoot /\ [][NextBoot]_vars

---------------------------------------------------------------------------
(* Properties. *)

\* a request that got a 2xx response
Succeeded(r) == r.exc = << >> /\ r.status >= 200 /\ r.status < 300

\* a request that failed at the HTTP layer: no response, or a non-2xx one
HttpFailed(r) == r.status = 0 \/ r.status < 200 \/ r.status >= 300

\* the last line on the error channel
LastErr == stderr[Len(stderr)]

\* the page was built without a tag the extractor matches, or its fragment
\* is not the base64 of a JSON object
NotAnObject == ~page_src.tag \/ page_src.kind \notin {"empty-dict", "dict"}

\* C1: whenever one of the three fetches fails at the HTTP layer (no
\* response, or a response whose status is not 2xx), that request is the
\* last one of the run and the process has exited with status 1 and a line
\* on the error channel: no stage follows a failed fetch.
C1_FetchFailureIsFatal ==
    \A i \in 1..Len(requests) :
        HttpFailed(requests[i]) =>
            /\ i = Len(requests)
            /\ pc = "done"
            /\ exit_code = 1
            /\ stderr # << >>

\* C2: once the stage after the page fetch has run on a page whose
\* bootstrap configuration is absent or is not a JSON object, the run has
\* the default namespace and appId and has not ended at that stage.
C2_MalformedBootstrapIsNotFatal ==
    ( /\ Len(requests) >= 1
      /\ requests[1].status # 0
      /\ pc # "parse"
      /\ NotAnObject )
    => /\ namespace.t = "str" /\ namespace.v = Standard
       /\ app_id.t = "str" /\ app_id.v = WebPortal
       /\ ~(pc = "done" /\ Len(requests) = 1)

\* spellings of the labels the resolver singles out
SandboxSpellings == { <<"s","a","n","d","b","o","x">>, <<"S","a","n","d","B","o","x">> }
DevSpellings == { <<"d","e","v">>, <<"D","E","V">>, <<"o","n","d","e","m","a","n","d">>, <<"O","n","D","e","m","a","n","d">> }

\* C3: the resolver returns dev or prod for every hostname, and dev exactly
\* when the first label is not "sandbox" in any case and a second label
\* exists and is "dev" or "ondemand" in any case.
C3_EnvResolver ==
    pc = "resolved" =>
        /\ env_type \in {"prod", "dev"}
        /\ env_type = "dev" <=>
              /\ host_labels[1] \notin SandboxSpellings
              /\ Len(host_labels) >= 2
              /\ host_labels[2] \in DevSpellings

\* a sandbox host with a development second label resolved to prod
C3_Witness ==
    /\ pc = "resolved"
    /\ Len(host_labels) >= 2
    /\ host_labels[1] = <<"S","a","n","d","B","o","x">>
    /\ host_labels[2] = <<"d","e","v">>
    /\ env_type = "prod"

\* the lines the "js" list of the entry-assets manifest asks for
ExpectedListing ==
    IF KeyJs \in DOMAIN entry_assets.v /\ entry_assets.v[KeyJs].v # << >>
    THEN [i \in 1..Len(entry_assets.v[KeyJs].v) |->
            entry_assets.v[KeyJs].v[i].v]
    ELSE << NoJsLine >>

\* C4: a run that has ended after three successful fetches has exit status
\* 0 and its standard output is the "js" list of the manifest, element by
\* element in manifest order, or the single notice line when the list is
\* absent or empty.
C4_SuccessListing ==
    ( /\ pc = "done"
      /\ Len(requests) = 3
      /\ \A i \in 1..3 : Succeeded(requests[i]) )
    => /\ exit_code = 0
       /\ stdout = ExpectedListing

\* a finished run that printed two different paths
C4_Witness ==
    /\ pc = "done"
    /\ exit_code = 0
    /\ Len(requests) = 3
    /\ \A i \in 1..3 : Succeeded(requests[i])
    /\ Len(stdout) = 2
    /\ stdout[1] # stdout[2]

\* C5: a run with a non-zero exit status has written no bundle path and no
\* notice line to standard output.
C5_NoPartialOutput ==
    exit_code # 0 =>
        \A i \in 1..Len(stdout) :
            /\ stdout[i] # NoJsLine
            /\ stdout[i] \notin { Text(p) : p \in Paths }

\* a run that failed at the entry-assets fetch, the last stage before output
C5_Witness ==
    /\ pc = "done"
    /\ exit_code = 1
    /\ Len(requests) = 3
    /\ stdout = << >>

\* the positions of the descriptors of the fetched manifest whose id is the
\* requested one
Matching ==
    { i \in 1..Len(apps.v) :
        /\ KeyId \in DOMAIN apps.v[i].v
        /\ apps.v[i].v[KeyId].t = app_id.t
        /\ apps.v[i].v[KeyId].v = app_id.v }

\* C6: after the lookup in a fetched manifest: with no descriptor of the
\* requested id the process has exited with status 1, its last error line
\* is the lookup message with the id in it, not the message of a failed
\* manifest fetch, and no entry-assets request was issued; otherwise the
\* descriptor selected is the first of that id in manifest order.
C6_Lookup ==
    ( /\ Len(requests) >= 2
      /\ requests[2].exc = << >>
      /\ pc # "find_app" )
    => IF Matching = {}
       THEN /\ pc = "done"
            /\ exit_code = 1
            /\ Len(requests) = 2
            /\ stderr # << >>
            /\ LastErr.text = NotFound(app_id).text
            /\ LastErr.args = << app_id.v >>
            /\ LastErr.text # AppsError(<< >>).text
       ELSE /\ app.t = "dict"
            /\ app.v = apps.v[Min(Matching)].v

\* a lookup that failed in a manifest that is not empty
C6_Witness ==
    /\ pc = "done"
    /\ Len(requests) = 2
    /\ requests[2].exc = << >>
    /\ Len(apps.v) >= 1
    /\ Matching = {}
    /\ exit_code = 1

\* C7: a run without the URL argument issues no request, writes one line to
\* the error channel and exits with status 1.
C7_UsageOnErrorChannel ==
    (pc = "done" /\ Len(argv) < 2) =>
        /\ requests = << >>
        /\ exit_code = 1
        /\ Len(stderr) = 1

\* C8: the extractor returns none or a mapping; none for a page without a
\* matching tag and for a fragment that is not the base64 of a JSON object;
\* and the same result when run again on the same page.
C8_ExtractorResult ==
    pc = "extracted" =>
        /\ config.t \in {"none", "dict"}
        /\ NotAnObject => config.t = "none"
        /\ config2.t = config.t
        /\ config2.v = config.v

\* C9, the order of the requests: page, then apps manifest, then entry
\* assets, each at most once
C9_Order ==
    /\ Len(requests) <= 3
    /\ \A i \in 1..Len(requests) :
          requests[i].kind = << "page", "apps", "assets" >>[i]

\* C9, a stage ends the process with status 1 and an error line, or the
\* run goes on; a finished run has status 0 or 1
C9_StageEnds ==
    (pc = "done" /\ Len(argv) >= 2) =>
        /\ exit_code \in {0, 1}
        /\ exit_code = 1 => Len(stderr) = 1
        /\ exit_code = 0 => stderr = << >>

\* C9, the entry-assets request follows a located descriptor
C9_AssetsAfterLookup ==
    Len(requests) >= 3 => Succeeded(requests[2]) /\ Matching # {}

\* C9, the apps-manifest request follows a successful page fetch
C9_AppsAfterPage == Len(requests) >= 2 => Succeeded(requests[1])

\* C9, a run that has not ended is at a stage that can take its step
C9_NoStall ==
    /\ pc \in {"start", "fetch_page", "parse", "load_apps", "find_app",
               "fetch_assets", "print", "loop", "done"}
    /\ pc = "loop" => idx \in 1..Len(js_files.v)

\* C9: the stages run in the order page fetch, extraction, apps manifest
\* and lookup, entry assets, print; a stage advances or ends the process
\* with status 1 and an error line; the apps-manifest request follows a
\* successful page fetch and the entry-assets request a located
\* descriptor; no request is issued twice; and a run that has not ended
\* is at a stage that takes its step.
C9_Pipeline ==
    /\ C9_Order
    /\ C9_StageEnds
    /\ C9_AssetsAfterLookup
    /\ C9_AppsAfterPage
    /\ C9_NoStall

\* the host and the folder the environment and the namespace ask for
ExpectedHost ==
    IF env_type = "prod" THEN <<"h","t","t","p","s",":","/","/","c","l","o","v","e","r","s","t","a","t","i","c",".","c","o","m">>
    ELSE <<"h","t","t","p","s",":","/","/","d","e","v",".","c","l","o","v","e","r","s","t","a","t","i","c",".","c","o","m">>
ExpectedFolder ==
    IF namespace.t = "str" /\ namespace.v = <<"s","t","a","n","d","a","r","d">>
    THEN <<"a","p","p","s">> ELSE <<"i","n","t","e","r","n","a","l","-","a","p","p","s">>

\* C10: the apps-manifest URL is host/web/folder/_config/apps.json and the
\* entry-assets URL is host/web/folder/repo/version/entry-assets.json, with
\* the host of the environment, the folder of the namespace ("apps" exactly
\* for "standard") and the repo and version of the located descriptor: the
\* same host and folder in both.
C10_DownstreamUrls ==
    /\ Len(requests) >= 2 =>
          requests[2].url = ExpectedHost \o <<"/","w","e","b","/">> \o ExpectedFolder
                              \o <<"/","_","c","o","n","f","i","g","/","a","p","p","s",".","j","s","o","n">>
    /\ Len(requests) >= 3 =>
          requests[3].url = ExpectedHost \o <<"/","w","e","b","/">> \o ExpectedFolder
                              \o <<"/">> \o apps.v[Min(Matching)].v[KeyRepo].v
                              \o <<"/">> \o apps.v[Min(Matching)].v[KeyVersion].v
                              \o <<"/","e","n","t","r","y","-","a","s","s","e","t","s",".","j","s","o","n">>

\* an entry-assets request of a development host in another namespace
C10_Witness ==
    /\ Len(requests) = 3
    /\ env_type = "dev"
    /\ namespace.t = "str"
    /\ namespace.v # Standard

===========================================================================
